---- MODULE Spec2Model ----
(***************************************************************************)
(* Model of the CData Sync MCP server: the streamable-HTTP transport's     *)
(* request/response bookkeeping, the tool-call dispatcher of               *)
(* CDataMCPServer with its workspace override, lifecycle events and        *)
(* outbound HTTP requests, and the SyncConfigService configuration store.  *)
(***************************************************************************)
EXTENDS Integers, Sequences, FiniteSets, TLC

(***************************************************************************)
(* Bounds                                                                  *)
(***************************************************************************)
\* number of POST /message requests the transport model accepts
MaxReqs == 2
\* largest JSON-RPC id a client puts on a request
MaxId == 2
\* number of server notifications passed to send()
MaxNotes == 1
\* largest value of the millisecond clock while debug clients connect
MaxClock == 1
\* number of events broadcast to the debug clients
MaxEvents == 2

VARIABLES
  \* ---- StreamableHttpTransport ----
  pendingRequests,    \* Map<id, PendingRequest>: id -> owning request, 0 = no entry
  requests,           \* one record per accepted POST /message request
  onMessage,          \* TRUE when the transport's onMessage handler is set
  isStarted,          \* StreamableHttpTransport.isStarted
  listening,          \* the express server accepts connections
  messageBuffer,      \* StreamableHttpTransport.messageBuffer
  streamConnections,  \* clients connected to GET /stream
  streamOut,          \* what has been written to each stream client
  inbox,              \* requests forwarded to the MCP server, not yet answered
  notes,              \* notifications the server has passed to send()
  \* ---- CDataMCPServer ----
  calls,              \* the tool calls being handled, one record per call slot
  syncClient,         \* CDataMCPServer.syncClient: its config and workspace
  config,             \* SyncConfigService.config
  sseServer,          \* TRUE when CDataMCPServer.sseServer is set
  \* ---- process start-up and SSEServer ----
  env,                \* the process environment read at start-up
  started,            \* "no", "sse" (debug server set up), "http" (transport
                      \* listening), "yes" (main has finished)
  sseListening,       \* SSEServer.isListening
  clients,            \* SSEServer.clients: clientId -> connection
  clock,              \* Date.now()
  sseConns,           \* the GET /events connections
  broadcasts,         \* number of events broadcast so far
  \* ---- CDataSyncApiClient's JSON conversions ----
  json                \* an ID field of a response: as sent, as delivered to
                      \* the caller, as sent back

trVars == <<pendingRequests, requests, onMessage, isStarted, listening,
            messageBuffer, streamConnections, streamOut, inbox, notes>>

toolVars == <<calls, syncClient, config, sseServer>>

sseVars == <<env, started, sseListening, clients, clock, sseConns, broadcasts>>

vars == <<trVars, toolVars, sseVars, json>>

(***************************************************************************)
(* StreamableHttpTransport                                                 *)
(***************************************************************************)
ReqIds == 1..MaxReqs
Ids == 1..MaxId
StreamClients == {"s1", "s2"}
\* the stream clients that connect while request correlation is examined
CorrelationStreams == {"s1"}
NoReq == 0
NoMsg == [kind |-> "none"]

\* a JSON-RPC response the MCP server produces for the forwarded request src
ServerResponse(r, id) == [kind |-> "response", id |-> id, src |-> r]
\* a response message a client POSTs to /message
ClientResponse(id) == [kind |-> "response", id |-> id, src |-> NoReq]
Notification(n) == [kind |-> "note", n |-> n]
Connected(cl) == [kind |-> "connected", client |-> cl]

FreshRequest ==
  [id |-> 0, st |-> "none", timer |-> FALSE, reply |-> NoMsg,
   reason |-> "", settles |-> 0, offered |-> {}]

isResponse(m) == m.kind = "response"

\* a resolve that forgets clearTimeout(pending.timeout)
Resolve_keepsTimer(reqs, r, m) ==
  [reqs EXCEPT ![r].st = IF @ = "pending" THEN "resolved" ELSE @,
               ![r].reply = IF reqs[r].st = "pending" THEN m ELSE @,
               ![r].settles = @ + 1]

\* pending.resolve(message) after clearTimeout(pending.timeout)
Resolve(reqs, r, m) ==
  [reqs EXCEPT ![r].st = IF @ = "pending" THEN "resolved" ELSE @,
               ![r].reply = IF reqs[r].st = "pending" THEN m ELSE @,
               ![r].timer = FALSE,
               ![r].settles = @ + 1]

\* reject(new Error(why))
Reject(reqs, r, why, keepTimer) ==
  [reqs EXCEPT ![r].st = IF @ = "pending" THEN "rejected" ELSE @,
               ![r].reason = IF reqs[r].st = "pending" THEN why ELSE @,
               ![r].timer = IF keepTimer THEN @ ELSE FALSE,
               ![r].settles = @ + 1]

\* history: the responses the server passed to send() carrying the id of a
\* request that was still waiting for its reply
Offer(reqs, m) ==
  [r \in ReqIds |->
     IF reqs[r].st = "pending" /\ reqs[r].id = m.id
       THEN [reqs[r] EXCEPT !.offered = @ \cup {m}]
       ELSE reqs[r]]

\* sendSSEMessage to every stream connection
Broadcast(out, conns, m) ==
  [cl \in StreamClients |-> IF cl \in conns THEN Append(out[cl], m) ELSE out[cl]]

\* send(message)
sendEffect(m) ==
  IF ~isStarted
    THEN /\ messageBuffer' = Append(messageBuffer, m)
         /\ UNCHANGED <<pendingRequests, streamOut>>
         /\ requests' = (IF isResponse(m) THEN Offer(requests, m) ELSE requests)
    ELSE IF isResponse(m) /\ pendingRequests[m.id] # NoReq
      THEN /\ pendingRequests' = [pendingRequests EXCEPT ![m.id] = NoReq]
           /\ requests' = Resolve(Offer(requests, m), pendingRequests[m.id], m)
           /\ UNCHANGED <<messageBuffer, streamOut>>
      ELSE /\ streamOut' = Broadcast(streamOut, streamConnections, m)
           /\ requests' = (IF isResponse(m) THEN Offer(requests, m) ELSE requests)
           /\ UNCHANGED <<pendingRequests, messageBuffer>>

\* start(): the listen callback
start ==
  /\ ~listening /\ ~isStarted
  /\ \A r \in ReqIds : requests[r].st = "none"
  /\ listening' = TRUE
  /\ isStarted' = TRUE
  /\ UNCHANGED <<pendingRequests, requests, onMessage, messageBuffer,
                 streamConnections, streamOut, inbox, notes>>
  /\ UNCHANGED <<toolVars, sseVars, json>>

\* server.connect(transport) installs the message handler
connect ==
  /\ ~onMessage
  /\ onMessage' = TRUE
  /\ UNCHANGED <<pendingRequests, requests, isStarted, listening, messageBuffer,
                 streamConnections, streamOut, inbox, notes>>
  /\ UNCHANGED <<toolVars, sseVars, json>>

\* POST /message with a request: handleClientRequest
handleClientRequest(r, id) ==
  /\ listening
  /\ requests[r].st = "none"
  /\ \A q \in ReqIds : q < r => requests[q].st # "none"
  /\ IF onMessage
       THEN /\ pendingRequests' = [pendingRequests EXCEPT ![id] = r]
            /\ requests' = [requests EXCEPT ![r].id = id, ![r].st = "pending",
                                            ![r].timer = TRUE]
            /\ inbox' = inbox \cup {r}
       ELSE /\ pendingRequests' = [pendingRequests EXCEPT ![id] = NoReq]
            /\ requests' = Reject([requests EXCEPT ![r].id = id, ![r].st = "pending"],
                                  r, "No message handler available", FALSE)
            /\ UNCHANGED inbox
  /\ UNCHANGED <<onMessage, isStarted, listening, messageBuffer,
                 streamConnections, streamOut, notes>>
  /\ UNCHANGED <<toolVars, sseVars, json>>

\* the setTimeout callback of request r
requestTimeout(r) ==
  /\ requests[r].timer
  /\ pendingRequests' = [pendingRequests EXCEPT ![requests[r].id] = NoReq]
  /\ requests' = Reject(requests, r, "Request timeout", FALSE)
  /\ UNCHANGED <<onMessage, isStarted, listening, messageBuffer,
                 streamConnections, streamOut, inbox, notes>>
  /\ UNCHANGED <<toolVars, sseVars, json>>

\* the MCP server answers a forwarded request: send(response)
sendResponse(r) ==
  /\ r \in inbox
  /\ inbox' = inbox \ {r}
  /\ sendEffect(ServerResponse(r, requests[r].id))
  /\ UNCHANGED <<onMessage, isStarted, listening, streamConnections, notes>>
  /\ UNCHANGED <<toolVars, sseVars, json>>

\* the MCP server sends a notification: send(notification)
sendNotification ==
  /\ onMessage
  /\ notes < MaxNotes
  /\ notes' = notes + 1
  /\ sendEffect(Notification(notes + 1))
  /\ UNCHANGED <<onMessage, isStarted, listening, streamConnections, inbox>>
  /\ UNCHANGED <<toolVars, sseVars, json>>

\* POST /message with a response from a client: handleClientMessage
handleClientMessage(id) ==
  /\ listening
  /\ pendingRequests[id] # NoReq
  /\ pendingRequests' = [pendingRequests EXCEPT ![id] = NoReq]
  /\ requests' = Resolve(requests, pendingRequests[id], ClientResponse(id))
  /\ UNCHANGED <<onMessage, isStarted, listening, messageBuffer,
                 streamConnections, streamOut, inbox, notes>>
  /\ UNCHANGED <<toolVars, sseVars, json>>

\* a GET /stream that leaves the buffered messages in the buffer
streamConnect_keepsBuffer(cl) ==
  /\ listening
  /\ cl \notin streamConnections
  /\ streamOut[cl] = <<>>
  /\ streamOut' = [streamOut EXCEPT ![cl] = Append(@ \o messageBuffer, Connected(cl))]
  /\ streamConnections' = streamConnections \cup {cl}
  /\ UNCHANGED <<pendingRequests, requests, onMessage, isStarted, listening,
                 messageBuffer, inbox, notes>>
  /\ UNCHANGED <<toolVars, sseVars, json>>

\* GET /stream
streamConnect(cl) ==
  /\ listening
  /\ cl \notin streamConnections
  /\ streamOut[cl] = <<>>
  /\ streamOut' = [streamOut EXCEPT ![cl] = Append(@ \o messageBuffer, Connected(cl))]
  /\ messageBuffer' = <<>>
  /\ streamConnections' = streamConnections \cup {cl}
  /\ UNCHANGED <<pendingRequests, requests, onMessage, isStarted, listening,
                 inbox, notes>>
  /\ UNCHANGED <<toolVars, sseVars, json>>

\* req.on('close') of a stream client
streamDisconnect(cl) ==
  /\ cl \in streamConnections
  /\ streamConnections' = streamConnections \ {cl}
  /\ UNCHANGED <<pendingRequests, requests, onMessage, isStarted, listening,
                 messageBuffer, streamOut, inbox, notes>>
  /\ UNCHANGED <<toolVars, sseVars, json>>

RECURSIVE RejectAll(_, _)
RejectAll(reqs, rs) ==
  IF rs = {} THEN reqs
  ELSE LET r == CHOOSE x \in rs : TRUE
       IN RejectAll(Reject(reqs, r, "Transport closing", FALSE), rs \ {r})

\* close(): reject what is pending, end the streams, stop listening
close ==
  /\ listening
  /\ requests' = RejectAll(requests, {pendingRequests[i] : i \in Ids} \ {NoReq})
  /\ pendingRequests' = [i \in Ids |-> NoReq]
  /\ streamConnections' = {}
  /\ listening' = FALSE
  /\ UNCHANGED <<onMessage, isStarted, messageBuffer, streamOut, inbox, notes>>
  /\ UNCHANGED <<toolVars, sseVars, json>>

\* the server.close callback
closed ==
  /\ ~listening /\ isStarted
  /\ isStarted' = FALSE
  /\ UNCHANGED <<pendingRequests, requests, onMessage, listening, messageBuffer,
                 streamConnections, streamOut, inbox, notes>>
  /\ UNCHANGED <<toolVars, sseVars, json>>

(***************************************************************************)
(* Values: strings, URLs, configurations                                   *)
(***************************************************************************)
Absent == "<absent>"
None == "<none>"

\* string.length of the strings the model uses
StrLen(s) ==
  CASE s = "" -> 0
    [] s = "tok-short" -> 9
    [] s = "token-AAAA1" -> 11
    [] s = "token-BBBB2" -> 11
    [] s = "pw-shrt" -> 7
    [] s = "passw0rd-A" -> 10
    [] s = "passw0rd-B" -> 10
    [] s = "admin" -> 5
    [] OTHER -> 6

\* JavaScript truthiness of an optional string
Truthy(s) == s # Absent /\ s # ""

\* a URL string, as its scheme and the segments of what follows the host
AbsentUrl == [scheme |-> Absent, path |-> <<>>]
EmptyUrl == [scheme |-> "", path |-> <<>>]
UrlDefined(u) == u.scheme # Absent
UrlTruthy(u) == UrlDefined(u) /\ ~(u.scheme = "" /\ u.path = <<>>)

isValidUrl(u) == u.scheme \in {"http", "https"}

EndsWithApiRsc(path) ==
  Len(path) >= 2 /\ path[Len(path) - 1] = "/" /\ path[Len(path)] = "api.rsc"
EndsWithSlash(path) == Len(path) >= 1 /\ path[Len(path)] = "/"

\* updateConfig: "Ensure it ends with /api.rsc"
normalizeBaseUrl(u) ==
  IF EndsWithApiRsc(u.path) THEN u
  ELSE [u EXCEPT !.path =
          (IF EndsWithSlash(u.path) THEN u.path ELSE Append(u.path, "/"))
            \o <<"api.rsc">>]

NoParams ==
  [baseUrl |-> AbsentUrl, authToken |-> Absent, username |-> Absent,
   password |-> Absent, clearAuth |-> FALSE]

hasCredentials(cfg) ==
  Truthy(cfg.authToken) \/ (Truthy(cfg.username) /\ Truthy(cfg.password))

\* a getCurrentConfig that echoes the stored secrets
getCurrentConfig_echo(cfg) ==
  [baseUrl |-> cfg.baseUrl,
   authType |-> IF Truthy(cfg.authToken) THEN "token"
                ELSE IF Truthy(cfg.username) THEN "basic" ELSE "none",
   username |-> IF Truthy(cfg.username) THEN cfg.username ELSE Absent,
   hasPassword |-> cfg.password,
   hasAuthToken |-> cfg.authToken,
   isConfigured |-> UrlTruthy(cfg.baseUrl) /\ hasCredentials(cfg)]

\* SyncConfigService.getCurrentConfig
getCurrentConfig(cfg) ==
  [baseUrl |-> cfg.baseUrl,
   authType |-> IF Truthy(cfg.authToken) THEN "token"
                ELSE IF Truthy(cfg.username) THEN "basic" ELSE "none",
   username |-> IF Truthy(cfg.username) THEN cfg.username ELSE Absent,
   hasPassword |-> Truthy(cfg.password),
   hasAuthToken |-> Truthy(cfg.authToken),
   isConfigured |-> UrlTruthy(cfg.baseUrl) /\ hasCredentials(cfg)]

\* SyncConfigService.validateConfig: "valid" or the message of the failure
validateConfig(cfg) ==
  IF ~UrlTruthy(cfg.baseUrl) THEN "Base URL is required"
  ELSE IF ~hasCredentials(cfg) THEN "Authentication is required"
  ELSE IF ~Truthy(cfg.authToken) /\ Truthy(cfg.username) /\ ~Truthy(cfg.password)
    THEN "Password is required when using basic authentication"
  ELSE "valid"

\* a "Handle authentication updates" that keeps the basic credentials when a
\* token is set
buildNewConfig_keepsBasic(cfg, p) ==
  LET c1 == IF UrlDefined(p.baseUrl)
              THEN [cfg EXCEPT !.baseUrl = normalizeBaseUrl(p.baseUrl)] ELSE cfg
  IN IF p.clearAuth
       THEN [c1 EXCEPT !.authToken = Absent, !.username = Absent, !.password = Absent]
     ELSE IF p.authToken # Absent
       THEN [c1 EXCEPT !.authToken = p.authToken]
     ELSE IF p.username # Absent \/ p.password # Absent
       THEN [c1 EXCEPT !.username = IF p.username # Absent THEN p.username ELSE @,
                       !.password = IF p.password # Absent THEN p.password ELSE @,
                       !.authToken = Absent]
     ELSE c1

\* updateConfig, "Create new config" to "Handle authentication updates"
buildNewConfig(cfg, p) ==
  LET c1 == IF UrlDefined(p.baseUrl)
              THEN [cfg EXCEPT !.baseUrl = normalizeBaseUrl(p.baseUrl)] ELSE cfg
  IN IF p.clearAuth
       THEN [c1 EXCEPT !.authToken = Absent, !.username = Absent, !.password = Absent]
     ELSE IF p.authToken # Absent
       THEN [c1 EXCEPT !.authToken = p.authToken, !.username = Absent,
                       !.password = Absent]
     ELSE IF p.username # Absent \/ p.password # Absent
       THEN [c1 EXCEPT !.username = IF p.username # Absent THEN p.username ELSE @,
                       !.password = IF p.password # Absent THEN p.password ELSE @,
                       !.authToken = Absent]
     ELSE c1

\* updateConfig up to the connectivity test: "test" when the new configuration
\* is to be tested, else the message of the failure result
updateConfigChecks(cfg, p) ==
  IF UrlTruthy(p.baseUrl) /\ ~isValidUrl(p.baseUrl) THEN "Invalid base URL format"
  ELSE IF p.authToken # Absent /\ StrLen(p.authToken) < 10
    THEN "Auth token must be at least 10 characters long"
  ELSE IF p.password # Absent /\ StrLen(p.password) < 8
    THEN "Password must be at least 8 characters long"
  ELSE IF validateConfig(buildNewConfig(cfg, p)) # "valid"
    THEN validateConfig(buildNewConfig(cfg, p))
  ELSE "test"

(***************************************************************************)
(* Required-parameter validation                                           *)
(***************************************************************************)
\* REQUIRED_PARAMETERS
REQUIRED_PARAMETERS(tool, action) ==
  CASE tool = "write_connections" /\ action = "create" ->
         {"name", "providerName", "connectionString"}
    [] tool = "write_connections" /\ action \in {"update", "delete"} -> {"name"}
    [] tool = "write_jobs" /\ action = "create" -> {"jobName", "source", "destination"}
    [] tool = "write_jobs" /\ action \in {"update", "delete"} -> {"jobName"}
    [] tool = "write_tasks" /\ action = "create" -> {"jobName"}
    [] tool = "write_tasks" /\ action \in {"update", "delete"} -> {"jobName", "taskId"}
    [] tool = "write_transformations" /\ action = "create" ->
         {"transformationName", "connection"}
    [] tool = "write_transformations" /\ action \in {"update", "delete"} ->
         {"transformationName"}
    [] tool = "write_users" /\ action = "create" -> {"user", "password", "roles"}
    [] tool = "write_users" /\ action = "update" -> {"user"}
    [] tool = "execute_query" /\ action = "execute" -> {"queries"}
    [] OTHER -> {}

HasRequiredTable(tool) ==
  tool \in {"write_connections", "write_jobs", "write_tasks", "write_transformations",
            "write_users", "execute_job", "execute_query", "configure_sync_server"}

\* the users argument is a sequence of the fields each entry carries; the
\* empty sequence stands for an absent argument (an empty array is not among
\* the inputs)
NoUsers == <<>>

\* validateRequiredParameters: the set of missing parameters, each the
\* sequence of the words of its name ("users[0].user" is <<"users", "0", "user">>)
validateRequiredParameters(tool, action, in) ==
  IF ~HasRequiredTable(tool) THEN {}
  ELSE
    {<<p>> : p \in REQUIRED_PARAMETERS(tool, action) \ in.args}
    \cup (IF tool = "write_tasks" /\ action = "create"
             /\ "query" \notin in.args /\ "table" \notin in.args
          THEN {<<"query OR table">>} ELSE {})
    \cup (IF tool \in {"execute_job", "execute_query"}
             /\ "jobName" \notin in.args /\ "jobId" \notin in.args
          THEN {<<"jobName OR jobId">>} ELSE {})
    \cup (IF tool = "write_users" /\ action = "create"
             /\ "user" \notin in.args /\ in.users = NoUsers
          THEN {<<"user OR users array">>} ELSE {})
    \cup (IF tool = "write_users" /\ action = "create"
          THEN UNION {{<<"users", ToString(i - 1), f>> :
                         f \in {"user", "password", "roles"} \ in.users[i]}
                        : i \in 1..Len(in.users)}
          ELSE {})
    \cup (IF tool = "configure_sync_server" /\ action = "update"
             /\ ~(UrlTruthy(in.params.baseUrl) \/ Truthy(in.params.authToken)
                  \/ (Truthy(in.params.username) /\ Truthy(in.params.password))
                  \/ in.params.clearAuth)
          THEN {<<"baseUrl, authToken, OR username/password">>} ELSE {})

StartsWith(tool, prefix) ==
  CASE prefix = "write_" ->
         tool \in {"write_connections", "write_jobs", "write_tasks",
                   "write_transformations", "write_users", "write_requests",
                   "write_certificates", "write_workspaces"}
    [] prefix = "execute_" -> tool \in {"execute_job", "execute_query"}
    [] OTHER -> FALSE

\* a validateToolParameters that forgets the execute_ tools
validateToolParameters_writeOnly(tool, in) ==
  IF StartsWith(tool, "write_") \/ tool = "configure_sync_server"
    THEN validateRequiredParameters(tool, IF in.action = None THEN "execute" ELSE in.action, in)
    ELSE {}

\* CDataMCPServer.validateToolParameters: the set of missing parameters
validateToolParameters(tool, in) ==
  IF StartsWith(tool, "write_") \/ StartsWith(tool, "execute_")
       \/ tool = "configure_sync_server"
    THEN validateRequiredParameters(tool, IF in.action = None THEN "execute" ELSE in.action, in)
    ELSE {}

(***************************************************************************)
(* Dispatch: tools, actions, handlers and service methods                  *)
(***************************************************************************)
\* types/tools.ts action guards; the tools dispatched without an action have none
ValidActions(tool) ==
  CASE tool = "configure_sync_server" -> {"get", "update"}
    [] tool = "read_connections" -> {"list", "count", "get", "test"}
    [] tool = "read_jobs" -> {"list", "count", "get", "status", "history", "logs"}
    [] tool \in {"write_connections", "write_jobs", "write_tasks",
                 "write_transformations", "write_workspaces"} ->
         {"create", "update", "delete"}
    [] tool \in {"read_tasks", "read_transformations", "read_users", "read_requests",
                 "read_workspaces"} -> {"list", "count", "get"}
    [] tool = "write_users" -> {"create", "update"}
    [] tool = "write_requests" -> {"delete"}
    [] tool = "read_history" -> {"list", "count"}
    [] tool = "read_certificates" -> {"list"}
    [] tool = "write_certificates" -> {"create"}
    [] OTHER -> {}

ActionlessTools ==
  {"execute_job", "cancel_job", "execute_query", "get_connection_tables",
   "get_table_columns", "get_job_tables"}

AllTools ==
  {"configure_sync_server", "read_connections", "write_connections", "read_jobs",
   "write_jobs", "execute_job", "cancel_job", "read_tasks", "write_tasks",
   "read_transformations", "write_transformations", "read_users", "write_users",
   "read_requests", "write_requests", "read_history", "read_certificates",
   "write_certificates", "read_workspaces", "write_workspaces", "execute_query",
   "get_connection_tables", "get_table_columns", "get_job_tables"}

\* the action the handler switches on (handleTaskRead defaults it to "get")
handlerAction(in) ==
  IF in.tool = "read_tasks" /\ in.action = None THEN "get" ELSE in.action

\* handlers that run their operation inside withWorkspaceOverride
UsesOverride(tool) ==
  tool \in {"read_connections", "write_connections", "read_jobs", "write_jobs",
            "read_tasks", "execute_job", "cancel_job", "get_connection_tables",
            "get_table_columns", "get_job_tables"}

\* the handler rejects the action before anything else
InvalidAction(in) ==
  /\ in.tool \notin ActionlessTools
  /\ handlerAction(in) \notin ValidActions(in.tool)

\* the handler's own checks (assertDefined and explicit throws) fail
HandlerThrows(in) ==
  LET t == in.tool
      a == handlerAction(in)
      A == in.args
  IN CASE t = "read_connections" -> a \in {"get", "test"} /\ "name" \notin A
       [] t = "write_connections" ->
            a = "create" /\ ~({"providerName", "connectionString"} \subseteq A)
       [] t = "read_jobs" ->
            \/ a = "get" /\ "jobName" \notin A
            \/ a \in {"status", "logs"} /\ "jobName" \notin A /\ "jobId" \notin A
       [] t = "write_jobs" -> a = "create" /\ ~({"source", "destination"} \subseteq A)
       [] t = "read_tasks" -> a = "get" /\ "jobName" \notin A
       [] t = "write_tasks" -> a \in {"update", "delete"} /\ "taskId" \notin A
       [] t = "read_transformations" -> a = "get" /\ "transformationName" \notin A
       [] t = "write_transformations" -> a = "create" /\ "connection" \notin A
       [] t = "read_users" -> a = "get" /\ "user" \notin A
       [] t = "write_users" ->
            \/ a = "create" /\ in.users = NoUsers
                 /\ ~({"user", "password", "roles"} \subseteq A)
            \/ a = "update" /\ "user" \notin A
       [] t \in {"read_requests", "write_requests"} ->
            a \in {"get", "delete"} /\ "id" \notin A
       [] t = "write_certificates" -> ~({"name", "data", "storeType"} \subseteq A)
       [] t = "read_workspaces" -> a = "get" /\ "id" \notin A /\ "name" \notin A
       [] t = "write_workspaces" ->
            \/ a = "create" /\ "name" \notin A
            \/ a = "update" /\ "newName" \notin A
            \/ a \in {"update", "delete"} /\ "id" \notin A /\ "name" \notin A
       [] OTHER -> FALSE

\* the service method the handler calls
ServiceMethod(in) ==
  LET t == in.tool
      a == handlerAction(in)
      A == in.args
  IN CASE t = "read_connections" ->
            (CASE a = "list" -> "connectionService.listConnections"
               [] a = "count" -> "connectionService.countConnections"
               [] a = "get" -> "connectionService.getConnection"
               [] OTHER -> "connectionService.testConnection")
       [] t = "write_connections" ->
            (CASE a = "create" -> "connectionService.createConnection"
               [] a = "update" -> "connectionService.updateConnection"
               [] OTHER -> "connectionService.deleteConnection")
       [] t = "read_jobs" ->
            (CASE a = "list" -> "jobService.listJobs"
               [] a = "count" -> "jobService.countJobs"
               [] a = "get" -> "jobService.getJob"
               [] a = "status" -> "jobService.getJobStatus"
               [] a = "history" -> "jobService.getJobHistory"
               [] OTHER -> "jobService.getJobLogs")
       [] t = "write_jobs" ->
            (CASE a = "create" -> "jobService.createJob"
               [] a = "update" -> "jobService.updateJob"
               [] OTHER -> "jobService.deleteJob")
       [] t = "execute_job" -> "jobService.executeJob"
       [] t = "cancel_job" -> "jobService.cancelJob"
       [] t = "execute_query" -> "jobService.executeQuery"
       [] t = "get_job_tables" -> "jobService.getJobTables"
       [] t = "get_connection_tables" -> "connectionService.getConnectionTables"
       [] t = "get_table_columns" -> "connectionService.getTableColumns"
       [] t = "read_tasks" ->
            (CASE a = "list" -> "taskService.listTasks"
               [] a = "count" -> "taskService.countTasks"
               [] OTHER -> "taskService.getTask")
       [] t = "write_tasks" ->
            (CASE a = "create" -> "taskService.createTask"
               [] a = "update" -> "taskService.updateTask"
               [] OTHER -> "taskService.deleteTask")
       [] t = "read_transformations" ->
            (CASE a = "list" -> "transformationService.listTransformations"
               [] a = "count" -> "transformationService.countTransformations"
               [] OTHER -> "transformationService.getTransformation")
       [] t = "write_transformations" ->
            (CASE a = "create" -> "transformationService.createTransformation"
               [] a = "update" -> "transformationService.updateTransformation"
               [] OTHER -> "transformationService.deleteTransformation")
       [] t = "read_users" ->
            (CASE a = "list" -> "userService.listUsers"
               [] a = "count" -> "userService.countUsers"
               [] OTHER -> "userService.getUser")
       [] t = "write_users" ->
            (CASE a = "create" /\ Len(in.users) > 1 -> "userService.createUsers"
               [] a = "create" -> "userService.createUser"
               [] OTHER -> "userService.updateUser")
       [] t = "read_requests" ->
            (CASE a = "list" -> "requestService.listRequests"
               [] a = "count" -> "requestService.countRequests"
               [] OTHER -> "requestService.getRequest")
       [] t = "write_requests" -> "requestService.deleteRequest"
       [] t = "read_history" ->
            (IF a = "list" THEN "historyService.listHistory"
             ELSE "historyService.countHistory")
       [] t = "read_certificates" -> "certificateService.listCertificates"
       [] t = "write_certificates" -> "certificateService.createCertificate"
       [] t = "read_workspaces" ->
            (CASE a = "list" -> "workspaceService.listWorkspaces"
               [] a = "count" -> "workspaceService.countWorkspaces"
               [] "id" \in A -> "workspaceService.getWorkspaceById"
               [] OTHER -> "workspaceService.getWorkspaceByName")
       [] t = "write_workspaces" ->
            (CASE a = "create" -> "workspaceService.createWorkspace"
               [] a = "update" /\ "id" \in A -> "workspaceService.updateWorkspaceById"
               [] a = "update" -> "workspaceService.updateWorkspace"
               [] "id" \in A -> "workspaceService.deleteWorkspaceById"
               [] OTHER -> "workspaceService.deleteWorkspace")
       [] OTHER -> None

\* the service method rejects its arguments before it issues a request
ServiceThrows(in) ==
  LET m == ServiceMethod(in)
      A == in.args
  IN CASE m \in {"jobService.executeJob", "jobService.cancelJob",
                 "jobService.executeQuery"} ->
            "jobName" \notin A /\ "jobId" \notin A
       [] m = "jobService.getJobTables" -> ~({"connectionName", "jobId"} \subseteq A)
       [] m = "taskService.createTask" -> "query" \notin A /\ "table" \notin A
       [] m = "userService.createUser" ->
            in.users # NoUsers /\ ~({"user", "password", "roles"} \subseteq in.users[1])
       [] m = "userService.createUsers" ->
            \E i \in 1..Len(in.users) : ~({"user", "password"} \subseteq in.users[i])
       [] m = "userService.updateUser" -> "password" \notin A /\ "roles" \notin A
       [] OTHER -> FALSE

\* a WorkspaceService that writes by name without a lookup
LooksUpFirst_never(m) == FALSE

\* service methods that look the entity up and then write it: two requests
LooksUpFirst(m) ==
  m \in {"workspaceService.updateWorkspace", "workspaceService.deleteWorkspace"}

\* service methods built on BaseService.getCountWithFallback
CountsWithFallback(m) == m = "connectionService.countConnections"

\* service methods whose request runs inside BaseService.callWithConfigCheck
\* (directly, or through handleDelete or getCountWithFallback)
Wrapped(m) ==
  m \in {"connectionService.listConnections", "connectionService.countConnections",
         "connectionService.getConnection", "connectionService.testConnection",
         "connectionService.createConnection", "connectionService.updateConnection",
         "connectionService.deleteConnection", "connectionService.getConnectionTables",
         "connectionService.getTableColumns", "jobService.deleteJob",
         "transformationService.deleteTransformation", "requestService.deleteRequest"}

(***************************************************************************)
(* Errors                                                                  *)
(***************************************************************************)
\* an exception: its message, error.response.status (0 when there is no
\* response) and error.code
Err(msg) == [msg |-> msg, status |-> 0, code |-> "", missing |-> {}]

Outcomes == {"ok", "400", "401", "404", "405", "500", "ECONNREFUSED", "ENOTFOUND"}

\* the error axios raises for a request that did not succeed
axiosError(o) ==
  CASE o = "400" -> [Err("Request failed with status code 400") EXCEPT !.status = 400]
    [] o = "401" -> [Err("Request failed with status code 401") EXCEPT !.status = 401]
    [] o = "404" -> [Err("Request failed with status code 404") EXCEPT !.status = 404]
    [] o = "405" -> [Err("Request failed with status code 405") EXCEPT !.status = 405]
    [] o = "500" -> [Err("Request failed with status code 500") EXCEPT !.status = 500]
    [] o = "ECONNREFUSED" -> [Err("connect ECONNREFUSED") EXCEPT !.code = "ECONNREFUSED"]
    [] OTHER -> [Err("getaddrinfo ENOTFOUND") EXCEPT !.code = "ENOTFOUND"]

\* a credential prompt handler that resolves with credentials
credentialPromptHandler_resolves == "resolves"

\* the credential prompt handler the server installs on its API client
credentialPromptHandler == "throws"

PromptError ==
  Err("Authentication required. Please provide CData Sync credentials using the configure_sync_server tool")

\* makeRequest's catch block, when the prompt handler (if called) throws
makeRequestError(o, prompts) ==
  IF o = "401" /\ prompts THEN PromptError ELSE axiosError(o)

UrlIncludesApiRsc(u) ==
  \E i \in 2..Len(u.path) : u.path[i - 1] = "/" /\ u.path[i] = "api.rsc"

\* BaseService.callWithConfigCheck's catch block; url is the base URL the
\* failed request was built from
callWithConfigCheck(err, url) ==
  CASE err.code = "ECONNREFUSED" ->
         Err("Cannot connect to CData Sync server. Please verify the base URL")
    [] err.code = "ENOTFOUND" ->
         Err("CData Sync server hostname not found. Please verify the base URL")
    [] err.status = 401 ->
         Err("Authentication failed. Please verify your credentials")
    [] err.status = 404 /\ UrlIncludesApiRsc(url) ->
         Err("CData Sync API endpoint not found. Please verify the base URL")
    [] OTHER -> err

\* JobService.getJob's catch block
getJobError(err) ==
  CASE err.status = 404 -> Err("Job not found")
    [] err.status = 400 -> Err("Invalid job name")
    [] OTHER -> err

\* validateWorkspace's catch block
validateWorkspaceError(err) ==
  IF err.status = 404 THEN Err("Workspace not found. Use read_workspaces") ELSE err

\* the error a service method's failed request surfaces as
serviceError(m, err, url) ==
  IF Wrapped(m) THEN callWithConfigCheck(err, url)
  ELSE IF m = "jobService.getJob" THEN getJobError(err)
  ELSE err

\* the McpError the CallTool handler's catch block builds
toMcpError(err) ==
  [base |-> err.msg,
   missing |-> err.missing,
   suffix |-> CASE err.status = 400 -> "(Bad Request - check parameter format)"
                [] err.status = 404 -> "(Not Found - resource doesn't exist)"
                [] err.status = 401 -> "(Unauthorized - check authentication)"
                [] OTHER -> ""]

\* updateConfig's catch block: the message of the failure result
updateConfigFailure(err) ==
  CASE err.status = 401 -> "Failed to connect: Authentication failed. Check credentials."
    [] err.status = 404 -> "Failed to connect: API endpoint not found. Check base URL."
    [] err.code = "ECONNREFUSED" ->
         "Failed to connect: Connection refused. Check if CData Sync is running."
    [] OTHER -> "Failed to connect: error.message"

(***************************************************************************)
(* The API client and its workspace                                        *)
(***************************************************************************)
\* new CDataSyncApiClient(config)
newClient(cfg) == [config |-> cfg, workspace |-> Absent]

\* CDataSyncApiClient.getWorkspace
getWorkspace(client) ==
  IF client.workspace # Absent THEN client.workspace
  ELSE IF Truthy(client.config.workspace) THEN client.config.workspace
  ELSE "default"

\* CDataSyncApiClient.setWorkspace
setWorkspace(client, workspace) == [client EXCEPT !.workspace = workspace]

\* a withWorkspaceOverride without its finally block
restoreWorkspace_none(client, originalWorkspace) == client

\* withWorkspaceOverride's finally block
restoreWorkspace(client, originalWorkspace) == setWorkspace(client, originalWorkspace)

(***************************************************************************)
(* Tool calls                                                              *)
(***************************************************************************)
Calls == {1, 2}

NoInput ==
  [tool |-> None, action |-> None, args |-> {}, users |-> NoUsers, ws |-> Absent,
   params |-> NoParams]

NoError == [base |-> None, missing |-> {}, suffix |-> ""]
NoResult == [success |-> FALSE, message |-> None]

\* a tool call: where it stands (pc), its arguments (in), what it has done in
\* order (trace: events broadcast, service methods entered, requests sent and
\* their outcomes), the API client's workspace when its service method was
\* entered (opWs), the fields of the body of its request (body), how it
\* ended, and of the run of overlapping calls it belongs to: the API client's
\* workspace before the first of them started (groupWs) and whether all of
\* them so far carry a workspaceId override (groupOverrides)
IdleCall ==
  [pc |-> "idle", in |-> NoInput, trace |-> <<>>,
   override |-> FALSE, savedWs |-> Absent, opWs |-> Absent, body |-> {},
   wsBefore |-> Absent, wsAfter |-> Absent, overlapped |-> FALSE,
   groupWs |-> Absent, groupOverrides |-> FALSE,
   prompts |-> FALSE, reqUrl |-> AbsentUrl,
   configBefore |-> <<>>, clientBefore |-> <<>>,
   newConfig |-> <<>>, notified |-> <<>>, info |-> <<>>,
   outcome |-> None, error |-> NoError, result |-> NoResult]

Event(n) == [kind |-> "event", name |-> n]
Http(n) == [kind |-> "http", name |-> n]
Service(n) == [kind |-> "service", name |-> n]
Response(o) == [kind |-> "response", name |-> o]

InFlight(call) == call.pc \notin {"idle", "done"}

\* The operators below thread s = [call, client, config]: the call, the
\* server's API client and SyncConfigService's stored configuration.
emit(s, e) == [s EXCEPT !.call.trace = Append(@, e)]

\* if (this.sseServer) this.sseServer.broadcastEvent(name, ...)
broadcastEvent(s, name) == IF sseServer THEN emit(s, Event(name)) ELSE s

\* the CallTool handler's catch block
throwMcpError(s, err) ==
  [s EXCEPT !.call.pc = "done", !.call.outcome = "McpError",
            !.call.error = toMcpError(err)]

\* a handleToolCall whose catch block broadcasts nothing
toolThrows_silent(s, err) == throwMcpError(s, err)

\* handleToolCall's catch block
toolThrows(s, err) == throwMcpError(broadcastEvent(s, "tool_error"), err)

\* handleToolCall's normal return
toolReturns(s, res) ==
  [broadcastEvent(s, "tool_success") EXCEPT
     !.call.pc = "done", !.call.outcome = "result", !.call.result = res]

\* a request leaves through makeRequest
sendRequest(s, name, pc) ==
  [emit(s, Http(name)) EXCEPT
     !.call.pc = pc,
     !.call.prompts = ~hasCredentials(s.client.config),
     !.call.reqUrl = s.client.config.baseUrl]

\* withWorkspaceOverride returns or throws
leaveOverride(s) ==
  IF ~UsesOverride(s.call.in.tool) THEN s
  ELSE LET cl == IF s.call.override
                   THEN restoreWorkspace(s.client, s.call.savedWs) ELSE s.client
       IN [s EXCEPT !.client = cl, !.call.override = FALSE,
                    !.call.wsAfter = getWorkspace(cl)]

operationThrows(s, err) == toolThrows(leaveOverride(s), err)

\* the events executeToolMethod broadcasts after the operation
afterOperation(s) ==
  CASE s.call.in.tool = "execute_job" -> broadcastEvent(s, "job_executed")
    [] s.call.in.tool = "cancel_job" -> broadcastEvent(s, "job_cancelled")
    [] s.call.in.tool = "execute_query" -> broadcastEvent(s, "query_executed")
    [] OTHER -> s

operationReturns(s) ==
  toolReturns(afterOperation(leaveOverride(s)), [success |-> TRUE, message |-> "ok"])

\* the CData field a job parameter is sent as
CDataField(p) ==
  CASE p = "jobName" -> "JobName"
    [] p = "source" -> "Source"
    [] p = "destination" -> "Destination"
    [] p = "scheduled" -> "Scheduled"
    [] p = "verbosity" -> "Verbosity"
    [] p = "queries" -> "Query#1"
    [] OTHER -> p

\* JobService.createJob: the fields of jobData that carry a value
createJobBody(args) ==
  {CDataField(p) : p \in args \cap {"jobName", "source", "destination", "scheduled",
                                     "verbosity", "queries"}}

\* JobService.mapJobParameters
mapJobParameters(args) == {CDataField(p) : p \in args \cap {"scheduled"}}

\* JobService.updateJob: the fields of jobData
updateJobBody(args) ==
  {CDataField(p) : p \in args \cap {"source", "destination"}}
    \cup mapJobParameters(args)

\* the fields of the body of the request a job write sends
requestBody(in) ==
  CASE ServiceMethod(in) = "jobService.createJob" -> createJobBody(in.args)
    [] ServiceMethod(in) = "jobService.updateJob" -> updateJobBody(in.args)
    [] OTHER -> {}

\* the operation passed to withWorkspaceOverride (or run directly), up to its
\* first request
startOperation(s) ==
  IF HandlerThrows(s.call.in)
    THEN operationThrows(s, Err("handler: a required argument is missing"))
  ELSE LET s1 == [emit(s, Service(ServiceMethod(s.call.in))) EXCEPT
                     !.call.opWs = getWorkspace(s.client)]
       IN IF ServiceThrows(s.call.in)
            THEN operationThrows(s1, Err("service: a required argument is missing"))
            ELSE [sendRequest(s1, ServiceMethod(s.call.in), "op") EXCEPT
                    !.call.body = requestBody(s.call.in)]

\* withWorkspaceOverride up to its first await
withWorkspaceOverride(s) ==
  IF s.call.in.ws # Absent
    THEN sendRequest(emit(s, Service("workspaceService.getWorkspaceById")),
                     "validateWorkspace", "wsValidate")
    ELSE startOperation(s)

\* withWorkspaceOverride after validateWorkspace succeeded
enterOverride(s) ==
  startOperation([s EXCEPT !.call.savedWs = getWorkspace(s.client),
                           !.call.override = TRUE,
                           !.client = setWorkspace(@, s.call.in.ws)])

\* handleConfigOperation up to its first await
handleConfigOperation(s) ==
  LET in == s.call.in
  IN CASE in.action \notin ValidActions("configure_sync_server") ->
            toolThrows(s, Err("Invalid config action"))
       [] in.action = "get" ->
            toolReturns(
              [emit(s, Service("syncConfigService.getCurrentConfig")) EXCEPT
                 !.call.info = <<getCurrentConfig(s.config)>>],
              [success |-> TRUE, message |-> "ok"])
       [] OTHER ->
            LET s1 == emit(s, Service("syncConfigService.updateConfig"))
                chk == updateConfigChecks(s.config, in.params)
            IN IF chk # "test"
                 THEN toolReturns(s1, [success |-> FALSE, message |-> chk])
                 ELSE [emit(s1, Http("testClient.get /connections")) EXCEPT
                         !.call.pc = "test",
                         !.call.prompts = FALSE,
                         !.call.newConfig = <<buildNewConfig(s.config, in.params)>>,
                         !.call.reqUrl = buildNewConfig(s.config, in.params).baseUrl]

\* handleConfigChange
handleConfigChange(s, newConfig) ==
  broadcastEvent([s EXCEPT !.client = newClient(newConfig),
                           !.call.notified = Append(@, newConfig)],
                 "config_changed")

\* an updateConfig that stores the new configuration before it is tested
afterConfigTest_storesFirst(s, o) ==
  LET newConfig == s.call.newConfig[1]
  IN IF o = "ok"
       THEN toolReturns(
              broadcastEvent(handleConfigChange([s EXCEPT !.config = newConfig],
                                                newConfig), "config_updated"),
              [success |-> TRUE, message |-> "Configuration updated successfully"])
       ELSE toolReturns([s EXCEPT !.config = newConfig],
                        [success |-> FALSE,
                         message |-> updateConfigFailure(axiosError(o))])

\* updateConfig and handleConfigOperation after the connectivity test
afterConfigTest(s, o) ==
  IF o = "ok"
    THEN LET newConfig == s.call.newConfig[1]
             s1 == handleConfigChange([s EXCEPT !.config = newConfig], newConfig)
         IN toolReturns(broadcastEvent(s1, "config_updated"),
                        [success |-> TRUE,
                         message |-> "Configuration updated successfully"])
    ELSE toolReturns(s, [success |-> FALSE,
                         message |-> updateConfigFailure(axiosError(o))])

\* executeToolMethod up to its first await
executeToolMethod(s) ==
  IF s.call.in.tool = "configure_sync_server" THEN handleConfigOperation(s)
  ELSE IF InvalidAction(s.call.in) THEN toolThrows(s, Err("Invalid action"))
  ELSE IF UsesOverride(s.call.in.tool) THEN withWorkspaceOverride(s)
  ELSE startOperation(s)

\* the continuation of a call when its pending request completes with o
afterResponse(s, o) ==
  LET call == s.call
      m == ServiceMethod(call.in)
      err == makeRequestError(o, call.prompts)
      s0 == emit(s, Response(o))
  IN CASE call.pc = "test" -> afterConfigTest(s0, o)
       [] o = "401" /\ call.prompts /\ credentialPromptHandler # "throws" ->
            [emit(s0, Http("retry")) EXCEPT !.call.prompts = FALSE]
       [] call.pc = "wsValidate" ->
            IF o = "ok" THEN enterOverride(s0)
            ELSE toolThrows([s0 EXCEPT !.call.wsAfter = getWorkspace(s.client)],
                            validateWorkspaceError(err))
       [] call.pc = "op" ->
            IF o = "ok"
              THEN IF LooksUpFirst(m) THEN sendRequest(s0, m, "op2")
                   ELSE operationReturns(s0)
            ELSE IF CountsWithFallback(m) /\ err.status \in {404, 405}
              THEN sendRequest(s0, "list fallback", "op2")
            ELSE operationThrows(s0, serviceError(m, err, call.reqUrl))
       [] OTHER ->
            IF o = "ok" THEN operationReturns(s0)
            ELSE operationThrows(s0, serviceError(m, err, call.reqUrl))

\* CallToolRequestSchema handler, from the arrival of the call to its first
\* request (or to its end, when it makes none)
CallTool(c, in) ==
  /\ calls[c].pc = "idle"
  /\ LET inflight == {d \in Calls \ {c} : InFlight(calls[d])}
         overrides == /\ UsesOverride(in.tool) /\ in.ws # Absent
                      /\ \A d \in inflight : calls[d].groupOverrides
         s0 == [call |-> [IdleCall EXCEPT !.in = in,
                                          !.wsBefore = getWorkspace(syncClient),
                                          !.configBefore = <<config>>,
                                          !.clientBefore = <<syncClient>>,
                                          !.overlapped = inflight # {},
                                          !.groupWs =
                                             IF inflight = {}
                                               THEN getWorkspace(syncClient)
                                               ELSE calls[CHOOSE d \in inflight : TRUE].groupWs,
                                          !.groupOverrides = overrides],
                client |-> syncClient, config |-> config]
         missing == validateToolParameters(in.tool, in)
         s1 == IF missing # {}
                 THEN throwMcpError(s0, [Err("Missing required parameters")
                                           EXCEPT !.missing = missing])
                 ELSE executeToolMethod(broadcastEvent(s0, "tool_execution"))
     IN /\ calls' = [d \in Calls |->
                       IF d = c THEN s1.call
                       ELSE IF d \in inflight
                         THEN [calls[d] EXCEPT !.overlapped = TRUE,
                                               !.groupOverrides = overrides]
                       ELSE calls[d]]
        /\ syncClient' = s1.client
        /\ config' = s1.config
  /\ UNCHANGED <<sseServer, trVars, sseVars, json>>

\* the pending request of call c completes with outcome o
HttpResponse(c, o) ==
  /\ InFlight(calls[c])
  /\ LET s1 == afterResponse([call |-> calls[c], client |-> syncClient,
                              config |-> config], o)
     IN /\ calls' = [calls EXCEPT ![c] = s1.call]
        /\ syncClient' = s1.client
        /\ config' = s1.config
  /\ UNCHANGED <<sseServer, trVars, sseVars, json>>

\* the reply of call c has been delivered; its slot takes the next call
Retire(c) ==
  /\ calls[c].pc = "done"
  /\ calls' = [calls EXCEPT ![c] = IdleCall]
  /\ UNCHANGED <<syncClient, config, sseServer, trVars, sseVars, json>>

(***************************************************************************)
(* Inputs and specifications of the tool-call handler                      *)
(***************************************************************************)
HttpUrl == [scheme |-> "http", path |-> <<>>]
HttpUrlSlash == [scheme |-> "http", path |-> <<"/">>]
HttpsApiUrl == [scheme |-> "https", path |-> <<"/", "api.rsc">>]
FtpUrl == [scheme |-> "ftp", path |-> <<>>]
NotAUrl == [scheme |-> "", path |-> <<"sync">>]

\* the configurations the server can be started with (index.ts reads them
\* from the environment): token, basic, and no credentials
InitConfigs ==
  {[baseUrl |-> normalizeBaseUrl(HttpUrl), authToken |-> "token-AAAA1",
    username |-> Absent, password |-> Absent, workspace |-> Absent],
   [baseUrl |-> HttpUrl, authToken |-> Absent,
    username |-> "admin", password |-> "passw0rd-A", workspace |-> Absent],
   [baseUrl |-> normalizeBaseUrl(HttpUrl), authToken |-> Absent,
    username |-> Absent, password |-> Absent, workspace |-> Absent]}

\* the arguments each tool reads (a subset of them is present in a call)
ToolParams(tool) ==
  CASE tool = "read_connections" -> {"name"}
    [] tool = "write_connections" -> {"name", "providerName", "connectionString"}
    [] tool \in {"read_jobs", "execute_job", "cancel_job"} -> {"jobName", "jobId"}
    [] tool = "write_jobs" -> {"jobName", "source", "destination", "scheduled",
                               "verbosity", "queries"}
    [] tool = "read_tasks" -> {"jobName"}
    [] tool = "write_tasks" -> {"jobName", "taskId", "query", "table"}
    [] tool = "read_transformations" -> {"transformationName"}
    [] tool = "write_transformations" -> {"transformationName", "connection"}
    [] tool = "read_users" -> {"user"}
    [] tool = "write_users" -> {"user", "password", "roles"}
    [] tool \in {"read_requests", "write_requests"} -> {"id"}
    [] tool = "write_certificates" -> {"name", "data", "storeType"}
    [] tool = "read_workspaces" -> {"id", "name"}
    [] tool = "write_workspaces" -> {"id", "name", "newName"}
    [] tool = "execute_query" -> {"jobName", "jobId", "queries"}
    [] tool = "get_connection_tables" -> {"connectionName"}
    [] tool = "get_table_columns" -> {"connectionName", "tableName"}
    [] tool = "get_job_tables" -> {"connectionName", "jobId"}
    [] OTHER -> {}

ActionChoices(tool) ==
  IF tool \in ActionlessTools THEN {None} ELSE ValidActions(tool) \cup {None, "bogus"}

UsersChoices(tool) ==
  IF tool = "write_users"
    THEN {NoUsers, <<{"user", "password", "roles"}>>, <<{"user", "password"}>>,
          <<{"user", "password", "roles"}, {"user", "password", "roles"}>>,
          <<{"user", "password", "roles"}, {"user"}>>}
    ELSE {NoUsers}

\* tools whose schema carries workspaceId
TakesWorkspaceId(tool) ==
  tool \in AllTools \ {"configure_sync_server", "read_workspaces", "write_workspaces"}

ResourceInputs(tools, workspaces) ==
  UNION {[tool : {t}, action : ActionChoices(t), args : SUBSET ToolParams(t),
          users : UsersChoices(t),
          ws : IF TakesWorkspaceId(t) THEN {Absent} \cup workspaces ELSE {Absent},
          params : {NoParams}] : t \in tools}

ConfigInputs(paramSpace) ==
  [tool : {"configure_sync_server"}, action : {"get", None}, args : {{}},
   users : {NoUsers}, ws : {Absent}, params : {NoParams}]
  \cup
  [tool : {"configure_sync_server"}, action : {"update"}, args : {{}},
   users : {NoUsers}, ws : {Absent}, params : paramSpace]

\* the configuration updates tried among the calls to all tools
FewParams ==
  {NoParams,
   [NoParams EXCEPT !.authToken = "token-BBBB2"],
   [NoParams EXCEPT !.authToken = "tok-short"],
   [NoParams EXCEPT !.baseUrl = FtpUrl],
   [NoParams EXCEPT !.clearAuth = TRUE]}

\* the configuration updates tried when configure_sync_server is examined alone
AllParams ==
  [baseUrl : {AbsentUrl, EmptyUrl, HttpUrl, HttpUrlSlash, HttpsApiUrl, FtpUrl, NotAUrl},
   authToken : {Absent, "", "tok-short", "token-AAAA1", "token-BBBB2"},
   username : {Absent, "admin"},
   password : {Absent, "pw-shrt", "passw0rd-A", "passw0rd-B"},
   clearAuth : BOOLEAN]

ToolInputs ==
  ResourceInputs(AllTools \ {"configure_sync_server"}, {"ws1"})
    \cup ConfigInputs(FewParams)

OverlapInputs ==
  {in \in ResourceInputs({"read_connections", "execute_job"}, {"ws1", "ws2"}) :
     \/ in.tool = "read_connections" /\ in.action = "list" /\ in.args = {}
     \/ in.tool = "execute_job" /\ in.args = {"jobName"}}
  \cup {in \in ConfigInputs({[NoParams EXCEPT !.authToken = "token-BBBB2"]}) :
          in.action = "update"}

\* the outcomes of a request tried when calls overlap
OverlapOutcomes == {"ok", "404", "ECONNREFUSED"}

\* the transport is not running
TransportInit ==
  /\ pendingRequests = [i \in Ids |-> NoReq]
  /\ requests = [r \in ReqIds |-> FreshRequest]
  /\ onMessage = FALSE
  /\ isStarted = FALSE
  /\ listening = FALSE
  /\ messageBuffer = <<>>
  /\ streamConnections = {}
  /\ streamOut = [cl \in StreamClients |-> <<>>]
  /\ inbox = {}
  /\ notes = 0

(***************************************************************************)
(* JSON conversion of numeric ID fields (CDataSyncApiClient)               *)
(***************************************************************************)
\* An integer n is kept as [neg, hi, lo] with |n| = hi * 10^8 + lo, so that
\* magnitudes beyond 2^53 can be written down.
Pow53 == [hi |-> 90071992, lo |-> 54740992]      \* 2^53 = 9007199254740992

Less(a, b) == a.hi < b.hi \/ (a.hi = b.hi /\ a.lo < b.lo)

\* the magnitudes of the ID values a response carries
Magnitudes ==
  {[hi |-> 0, lo |-> 42],
   [hi |-> 1234567, lo |-> 89012345],         \* 15 digits
   [hi |-> 10000000, lo |-> 0],                \* 16 digits, below 2^53
   Pow53,
   [hi |-> 90071992, lo |-> 54740993],         \* 2^53 + 1
   [hi |-> 90071992, lo |-> 54740994],         \* 2^53 + 2
   [hi |-> 90071992, lo |-> 54740995],         \* 2^53 + 3
   [hi |-> 99999999, lo |-> 99999999],         \* 16 nines
   [hi |-> 123456789, lo |-> 1234567]}         \* 12345678901234567

\* the names of the fields: sequences of characters
WordChars ==
  {"a", "b", "c", "d", "e", "f", "g", "h", "i", "j", "k", "l", "m", "n", "o", "p",
   "q", "r", "s", "t", "u", "v", "w", "x", "y", "z",
   "A", "B", "C", "D", "E", "F", "G", "H", "I", "J", "K", "L", "M", "N", "O", "P",
   "Q", "R", "S", "T", "U", "V", "W", "X", "Y", "Z",
   "0", "1", "2", "3", "4", "5", "6", "7", "8", "9", "_"}

FieldNames ==
  {<<"I", "d">>, <<"i", "d">>, <<"J", "o", "b", "I", "d">>,
   <<"t", "a", "s", "k", "I", "d">>, <<"N", "a", "m", "e">>}

\* the name ends in Id or id
EndsInId(name) ==
  /\ Len(name) >= 2
  /\ name[Len(name) - 1] \in {"I", "i"}
  /\ name[Len(name)] = "d"

\* the first group of bigIntRegex, for the names above: \w*[Ii]d
MatchesIdName(name) ==
  EndsInId(name) /\ \A i \in 1..Len(name) : name[i] \in WordChars

\* the second group of bigIntRegex, \d{16,} straight after the colon: an
\* unsigned literal of at least 16 digits
SixteenDigits(v) == ~v.neg /\ v.hi >= 10000000

\* the IEEE-754 double nearest to an integer literal below 2^54 in magnitude:
\* exact up to 2^53, the nearest even integer beyond (ties to the multiple of 4)
toDouble(v) ==
  IF ~Less(Pow53, v) THEN v
  ELSE LET r == v.lo % 2
           up == IF r = 0 THEN 0
                 ELSE IF (v.lo - 1) % 4 = 0 THEN -1 ELSE 1
           lo == v.lo + up
       IN IF lo = 100000000 THEN [v EXCEPT !.hi = @ + 1, !.lo = 0]
          ELSE [v EXCEPT !.lo = lo]

\* a JSON value: a string of digits or a number
JsonString(v) == [kind |-> "string", neg |-> v.neg, hi |-> v.hi, lo |-> v.lo]
JsonNumber(v) == [kind |-> "number", neg |-> v.neg, hi |-> v.hi, lo |-> v.lo]
NoJson == [kind |-> None, neg |-> FALSE, hi |-> 0, lo |-> 0]

\* parseJSONWithBigInt on the text "<name>":<literal>: the literal is quoted
\* when the regex matches, then JSON.parse reads a string or a double
parseJSONWithBigInt(name, v) ==
  IF MatchesIdName(name) /\ SixteenDigits(v) THEN JsonString(v)
  ELSE JsonNumber(toDouble(v))

\* toIdString
toIdString(j) == JsonString(j)

\* transformRequest: a listed ID field that is not a string gets toString(),
\* then JSON.stringify
transformRequest(j) == IF j.kind = "string" THEN j ELSE JsonString(j)

\* a response field arrives
receiveResponse ==
  /\ json.stage = "wire"
  /\ json' = [json EXCEPT !.stage = "delivered",
                          !.delivered = parseJSONWithBigInt(json.name, json.value)]
  /\ UNCHANGED <<trVars, toolVars, sseVars>>

\* the caller passes the ID it was given back in a request
sendIdBack ==
  /\ json.stage = "delivered"
  /\ json' = [json EXCEPT !.stage = "sent",
                          !.sent = transformRequest(toIdString(json.delivered))]
  /\ UNCHANGED <<trVars, toolVars, sseVars>>

\* no response field under examination
JsonIdle ==
  json = [stage |-> "idle", name |-> <<>>, value |-> [neg |-> FALSE, hi |-> 0, lo |-> 0],
          delivered |-> NoJson, sent |-> NoJson]

(***************************************************************************)
(* Process start-up (main) and the debug SSEServer                         *)
(***************************************************************************)
\* SSE_PORT when the environment does not set it
DefaultSsePort == 3001

\* the environments the process is started in: MCP_TRANSPORT_MODE,
\* DISABLE_SSE = 'true', SSE_PORT, and whether that port is already bound
Envs ==
  [mode : {"stdio", "http", "both"}, disableSSE : BOOLEAN,
   ssePort : {0, DefaultSsePort}, portInUse : BOOLEAN]

\* the ssePort argument main passes to startStdio / startBoth
ssePortArg(e) ==
  CASE e.mode = "stdio" ->
         IF e.disableSSE THEN [defined |-> FALSE, port |-> 0]
         ELSE [defined |-> TRUE, port |-> e.ssePort]
    [] e.mode = "both" ->
         [defined |-> TRUE, port |-> IF e.disableSSE THEN 0 ELSE e.ssePort]
    [] OTHER -> [defined |-> FALSE, port |-> 0]

\* startStdio creates the SSEServer "if (ssePort)", startBoth always,
\* startHttp never
createsSseServer(e) ==
  CASE e.mode = "stdio" -> ssePortArg(e).defined /\ ssePortArg(e).port # 0
    [] e.mode = "both" -> TRUE
    [] OTHER -> FALSE

\* SSEServer.listen(port): isListening once its promise has resolved; port 0
\* asks the system for any free port, EADDRINUSE resolves without listening
listen(port, inUse) == port = 0 \/ ~inUse

Conns == {"k1", "k2", "k3"}
ClientIds == 0..MaxClock

NoClients == [id \in ClientIds |-> None]

\* a GET /events connection: its state, the clientId it was given, the events
\* written to it (out) and the events broadcast while it was connected (due)
NewConn == [st |-> "new", id |-> 0, out |-> <<>>, due |-> <<>>]

ConnectedEvent == [event |-> "connected", n |-> 0]
DebugEvent(n) == [event |-> "broadcast", n |-> n]

SseIdle ==
  /\ clients = NoClients
  /\ clock = 0
  /\ sseConns = [k \in Conns |-> NewConn]
  /\ broadcasts = 0

\* the state main leaves behind when the process was started in environment e
Started(e) ==
  /\ env = e
  /\ started = "yes"
  /\ sseServer = createsSseServer(e)
  /\ sseListening = (createsSseServer(e) /\ listen(ssePortArg(e).port, e.portInUse))
  /\ SseIdle
  /\ JsonIdle

\* main, to the end of the debug server's set-up in startStdio / startBoth
main ==
  /\ started = "no"
  /\ sseServer' = createsSseServer(env)
  /\ sseListening' = (createsSseServer(env)
                       /\ listen(ssePortArg(env).port, env.portInUse))
  /\ started' = IF env.mode = "stdio" THEN "yes" ELSE "sse"
  /\ UNCHANGED <<calls, syncClient, config, env, clients, clock, sseConns, broadcasts,
                 trVars, json>>

\* startHttp / startBoth: await this.httpTransport.start()
mainStartTransport ==
  /\ started = "sse"
  /\ listening' = TRUE
  /\ isStarted' = TRUE
  /\ started' = "http"
  /\ UNCHANGED <<pendingRequests, requests, onMessage, messageBuffer,
                 streamConnections, streamOut, inbox, notes>>
  /\ UNCHANGED <<toolVars, env, sseListening, clients, clock, sseConns, broadcasts, json>>

\* startHttp / startBoth: await this.server.connect(this.httpTransport)
mainConnect ==
  /\ started = "http"
  /\ onMessage' = TRUE
  /\ started' = "yes"
  /\ UNCHANGED <<pendingRequests, requests, isStarted, listening, messageBuffer,
                 streamConnections, streamOut, inbox, notes>>
  /\ UNCHANGED <<toolVars, env, sseListening, clients, clock, sseConns, broadcasts, json>>

\* the millisecond clock advances
tick ==
  /\ clock < MaxClock
  /\ clock' = clock + 1
  /\ UNCHANGED <<env, started, sseListening, clients, sseConns, broadcasts>>
  /\ UNCHANGED <<toolVars, trVars, json>>

\* GET /events: clientId = Date.now().toString(), clients.set(clientId, res),
\* then sendEvent(clientId, "connected")
sseConnect(k) ==
  /\ sseListening
  /\ sseConns[k].st = "new"
  /\ clients' = [clients EXCEPT ![clock] = k]
  /\ sseConns' = [sseConns EXCEPT ![k] = [st |-> "open", id |-> clock,
                                    out |-> <<ConnectedEvent>>, due |-> <<>>]]
  /\ UNCHANGED <<env, started, sseListening, clock, broadcasts>>
  /\ UNCHANGED <<toolVars, trVars, json>>

\* req.on("close"): clients.delete(clientId)
sseDisconnect(k) ==
  /\ sseConns[k].st = "open"
  /\ clients' = [clients EXCEPT ![sseConns[k].id] = None]
  /\ sseConns' = [sseConns EXCEPT ![k].st = "closed"]
  /\ UNCHANGED <<env, started, sseListening, clock, broadcasts>>
  /\ UNCHANGED <<toolVars, trVars, json>>

\* SSEServer.broadcastEvent, called by the tool handlers when sseServer is set:
\* writes to every response in the map that is not destroyed and deletes the
\* others
sseBroadcast ==
  /\ started = "yes" /\ sseServer
  /\ broadcasts < MaxEvents
  /\ broadcasts' = broadcasts + 1
  /\ LET inMap(k) == \E id \in ClientIds : clients[id] = k
     IN /\ sseConns' = [k \in Conns |->
                       [sseConns[k] EXCEPT
                          !.out = IF inMap(k) /\ sseConns[k].st = "open"
                                    THEN Append(@, DebugEvent(broadcasts + 1)) ELSE @,
                          !.due = IF sseConns[k].st = "open"
                                    THEN Append(@, DebugEvent(broadcasts + 1)) ELSE @]]
        /\ clients' = [id \in ClientIds |->
                         IF clients[id] # None /\ sseConns[clients[id]].st # "open"
                           THEN None ELSE clients[id]]
  /\ UNCHANGED <<env, started, sseListening, clock>>
  /\ UNCHANGED <<toolVars, trVars, json>>

\* the environments of the server whose tool calls are examined: stdio, with
\* and without the debug server
RunEnvs ==
  [mode : {"stdio"}, disableSSE : BOOLEAN, ssePort : {DefaultSsePort},
   portInUse : {FALSE}]

\* CDataMCPServer's constructor and main: startStdio sets sseServer when the
\* debug server is enabled
ServerInit ==
  /\ calls = [c \in Calls |-> IdleCall]
  /\ config \in InitConfigs
  /\ syncClient = newClient(config)
  /\ \E e \in RunEnvs : Started(e)

Init == ServerInit /\ TransportInit

\* tool calls handled one at a time
Next ==
  \/ \E in \in ToolInputs : CallTool(1, in)
  \/ \E o \in Outcomes : HttpResponse(1, o)
  \/ Retire(1)

Spec == Init /\ [][Next]_vars

\* configure_sync_server alone, over all its parameters
NextConfig ==
  \/ \E in \in ConfigInputs(AllParams) : CallTool(1, in)
  \/ \E o \in Outcomes : HttpResponse(1, o)
  \/ Retire(1)

SpecConfig == Init /\ [][NextConfig]_vars

\* tool calls whose requests overlap in time
NextOverlap ==
  \/ \E c \in Calls, in \in OverlapInputs : CallTool(c, in)
  \/ \E c \in Calls, o \in OverlapOutcomes : HttpResponse(c, o)
  \/ \E c \in Calls : Retire(c)

\* started with a token configured
InitOverlap == Init /\ Truthy(config.authToken)

SpecOverlap == InitOverlap /\ [][NextOverlap]_vars

(***************************************************************************)
(* Specifications of the transport                                         *)
(***************************************************************************)
\* the server handles no tool call while the transport is examined
InitTransport ==
  /\ TransportInit
  /\ calls = [c \in Calls |-> IdleCall]
  /\ config = CHOOSE cfg \in InitConfigs : hasCredentials(cfg) /\ Truthy(cfg.authToken)
  /\ syncClient = newClient(config)
  /\ sseServer = FALSE
  /\ env = [mode |-> "http", disableSSE |-> FALSE, ssePort |-> DefaultSsePort,
            portInUse |-> FALSE]
  /\ started = "no"
  /\ sseListening = FALSE
  /\ SseIdle
  /\ JsonIdle

NextTransport ==
  \/ start
  \/ connect
  \/ \E r \in ReqIds, id \in Ids : handleClientRequest(r, id)
  \/ \E r \in ReqIds : requestTimeout(r)
  \/ \E r \in ReqIds : sendResponse(r)
  \/ sendNotification
  \/ \E id \in Ids : handleClientMessage(id)
  \/ \E cl \in CorrelationStreams : streamConnect(cl)
  \/ \E cl \in CorrelationStreams : streamDisconnect(cl)
  \/ close
  \/ closed

SpecTransport == InitTransport /\ [][NextTransport]_vars

\* the transport with every stream client connecting and every request
\* carrying an id of its own
NextStream ==
  \/ start
  \/ connect
  \/ \E r \in ReqIds \cap Ids : handleClientRequest(r, r)
  \/ \E r \in ReqIds : requestTimeout(r)
  \/ \E r \in ReqIds : sendResponse(r)
  \/ sendNotification
  \/ \E cl \in StreamClients : streamConnect(cl)
  \/ \E cl \in StreamClients : streamDisconnect(cl)
  \/ close
  \/ closed

SpecStream == InitTransport /\ [][NextStream]_vars

\* the event loop runs every armed timer's callback
LiveTransport == SpecTransport /\ \A r \in ReqIds : WF_vars(requestTimeout(r))

(***************************************************************************)
(* Specification of start-up and the debug SSEServer                       *)
(***************************************************************************)
InitSse ==
  /\ TransportInit
  /\ calls = [c \in Calls |-> IdleCall]
  /\ config = CHOOSE cfg \in InitConfigs : hasCredentials(cfg) /\ Truthy(cfg.authToken)
  /\ syncClient = newClient(config)
  /\ sseServer = FALSE
  /\ env \in Envs
  /\ started = "no"
  /\ sseListening = FALSE
  /\ SseIdle
  /\ JsonIdle

NextSse ==
  \/ main
  \/ mainStartTransport
  \/ mainConnect
  \/ tick
  \/ \E k \in Conns : sseConnect(k)
  \/ \E k \in Conns : sseDisconnect(k)
  \/ sseBroadcast

SpecSse == InitSse /\ [][NextSse]_vars

(***************************************************************************)
(* Specification of the JSON conversions                                   *)
(***************************************************************************)
InitJson ==
  /\ TransportInit
  /\ calls = [c \in Calls |-> IdleCall]
  /\ config = CHOOSE cfg \in InitConfigs : hasCredentials(cfg) /\ Truthy(cfg.authToken)
  /\ syncClient = newClient(config)
  /\ \E e \in RunEnvs : ~e.disableSSE /\ env = e /\ started = "yes"
                          /\ sseServer = createsSseServer(e)
                          /\ sseListening = createsSseServer(e)
  /\ SseIdle
  /\ \E name \in FieldNames, m \in Magnitudes, neg \in BOOLEAN :
       json = [stage |-> "wire", name |-> name,
               value |-> [neg |-> neg, hi |-> m.hi, lo |-> m.lo],
               delivered |-> NoJson, sent |-> NoJson]

NextJson == receiveResponse \/ sendIdBack

SpecJson == InitJson /\ [][NextJson]_vars

(***************************************************************************)
(* Request/response correlation and per-request timeout                    *)
(***************************************************************************)
Completed(r) == requests[r].st \in {"resolved", "rejected"}

\* C2: a response with a request's id that the server passes to send() while
\* the request is still waiting is the HTTP reply of that request, whatever
\* else is in flight.
C2_ResponseIsReplyOfItsRequest ==
  \A r \in ReqIds :
    requests[r].offered # {} =>
      /\ requests[r].st = "resolved"
      /\ requests[r].reply \in requests[r].offered

\* C3: every accepted request completes, and completes exactly once: resolved
\* by a response carrying its id, or rejected by its own timeout, by the
\* missing message handler or by close(); it is never settled twice and
\* never left pending.
C3_Once ==
  \A r \in ReqIds :
    /\ requests[r].settles <= 1
    /\ Completed(r) <=> requests[r].settles = 1
    /\ requests[r].st = "resolved" =>
          isResponse(requests[r].reply) /\ requests[r].reply.id = requests[r].id
    /\ requests[r].st = "rejected" =>
          requests[r].reason \in {"Request timeout", "No message handler available",
                                  "Transport closing"}

C3_CompletesExactlyOnce ==
  /\ []C3_Once
  /\ \A r \in ReqIds : (requests[r].st = "pending") ~> Completed(r)

\* two requests with the same id were in flight together: the later one was
\* resolved, the earlier one was rejected by its own timeout
C3_Witness ==
  \E r, q \in ReqIds :
    /\ r # q /\ requests[r].id = requests[q].id
    /\ requests[r].st = "rejected" /\ requests[r].reason = "Request timeout"
    /\ requests[q].st = "resolved"

(***************************************************************************)
(* Tool calls: observations on a call's trace                              *)
(***************************************************************************)
Done(c) == calls[c].pc = "done"

OfKind(trace, kind) == SelectSeq(trace, LAMBDA e : e.kind = kind)
HttpCount(c) == Len(OfKind(calls[c].trace, "http"))
EventCount(c, name) == Len(SelectSeq(calls[c].trace, LAMBDA e : e = Event(name)))

\* the call passed the CallTool handler's parameter validation
PassedValidation(c) ==
  calls[c].pc # "idle" /\ calls[c].error.base # "Missing required parameters"

\* the call entered a method of a resource service
ReachedResourceService(c) ==
  \E i \in 1..Len(calls[c].trace) :
    /\ calls[c].trace[i].kind = "service"
    /\ calls[c].trace[i].name \notin {"syncConfigService.getCurrentConfig",
                                      "syncConfigService.updateConfig"}

\* the call entered the service method of its own operation
OperationReached(c) ==
  \E i \in 1..Len(calls[c].trace) :
    calls[c].trace[i] = Service(ServiceMethod(calls[c].in))

\* the call validates a workspace id first
ValidatesWorkspace(c) ==
  UsesOverride(calls[c].in.tool) /\ calls[c].in.ws # Absent

\* the outcome of the call's last completed request, None when it made none
LastResponse(c) ==
  LET rs == OfKind(calls[c].trace, "response")
  IN IF rs = <<>> THEN None ELSE rs[Len(rs)].name

(***************************************************************************)
(* Workspace override                                                      *)
(***************************************************************************)
\* C1: for a tool call that carries workspaceId and runs with no other tool
\* call in flight, when withWorkspaceOverride has returned or thrown the API
\* client's workspace equals the value it had immediately before the call.
C1_WorkspaceRestored ==
  \A c \in Calls :
    (/\ ValidatesWorkspace(c)
     /\ calls[c].wsAfter # Absent
     /\ ~calls[c].overlapped)
    => calls[c].wsAfter = calls[c].wsBefore

\* a call alone in flight entered the override, switched the workspace, and
\* its operation failed
C1_Witness ==
  \E c \in Calls :
    /\ Done(c) /\ ValidatesWorkspace(c) /\ ~calls[c].overlapped
    /\ calls[c].savedWs # Absent /\ calls[c].savedWs # calls[c].in.ws
    /\ calls[c].outcome = "McpError"
    /\ HttpCount(c) = 2
    /\ calls[c].wsAfter = calls[c].wsBefore

WritesWorkspaceByName(c) ==
  /\ calls[c].in.tool = "write_workspaces"
  /\ calls[c].in.action \in {"update", "delete"}
  /\ "id" \notin calls[c].in.args

\* read_connections count
CountsConnections(c) ==
  calls[c].in.tool = "read_connections" /\ calls[c].in.action = "count"

\* the service method of the call rejected its arguments
RejectedByService(c) ==
  calls[c].error.base = "service: a required argument is missing"

FollowsFailure(c, j) ==
  /\ calls[c].trace[j].kind = "http"
  /\ \E i \in 1..(j - 1) :
       calls[c].trace[i].kind = "response" /\ calls[c].trace[i].name # "ok"

FailedResponses(c) ==
  SelectSeq(calls[c].trace, LAMBDA e : e.kind = "response" /\ e.name # "ok")

\* C5 as stated: after a failed request the call sends no further request,
\* and the failure is propagated to the caller.
C5_NoSecondAttempt ==
  \A c \in Calls :
    /\ \A j \in 1..Len(calls[c].trace) : ~FollowsFailure(c, j)
    /\ (Done(c) /\ FailedResponses(c) # <<>>) => calls[c].outcome = "McpError"

\* C5, amended: the only request sent after a failed one is the list request
\* of a connection count whose $count request was answered 404 or 405, sent
\* once; a call whose last request failed reports the failure: as an error,
\* or for configure_sync_server as a success=false result.
C5_OnlyCountFallsBack ==
  \A c \in Calls :
    /\ \A j \in 1..Len(calls[c].trace) :
         FollowsFailure(c, j) =>
           /\ CountsConnections(c)
           /\ calls[c].trace[j] = Http("list fallback")
           /\ calls[c].trace[j - 1] \in {Response("404"), Response("405")}
           /\ ~FollowsFailure(c, j - 2)
           /\ \A k \in 1..(j - 1) : calls[c].trace[k] # Http("list fallback")
    /\ (Done(c) /\ LastResponse(c) \notin {None, "ok"}) =>
         \/ calls[c].outcome = "McpError"
         \/ /\ calls[c].in.tool = "configure_sync_server"
            /\ calls[c].outcome = "result" /\ ~calls[c].result.success

\* a request answered 401 while no credentials are configured: the prompt
\* handler is called, and the call fails after its single request
C5_Witness ==
  \E c \in Calls :
    /\ Done(c) /\ HttpCount(c) = 1 /\ LastResponse(c) = "401"
    /\ ~hasCredentials(config)
    /\ calls[c].outcome = "McpError"
    /\ calls[c].error.base = PromptError.msg

(***************************************************************************)
(* Error taxonomy                                                          *)
(***************************************************************************)
\* the remediation guidance a message carries
Guidance(error) ==
  (IF \/ error.base \in {"Authentication failed. Please verify your credentials",
                         PromptError.msg}
      \/ error.suffix = "(Unauthorized - check authentication)"
   THEN {"authentication"} ELSE {})
  \cup
  (IF \/ error.base \in {"CData Sync API endpoint not found. Please verify the base URL",
                         "Job not found", "Workspace not found. Use read_workspaces"}
      \/ error.suffix = "(Not Found - resource doesn't exist)"
   THEN {"not-found"} ELSE {})
  \cup
  (IF error.base \in {"Cannot connect to CData Sync server. Please verify the base URL",
                      "CData Sync server hostname not found. Please verify the base URL"}
   THEN {"connectivity"} ELSE {})

GuidanceFor(o) ==
  CASE o = "401" -> "authentication"
    [] o = "404" -> "not-found"
    [] OTHER -> "connectivity"

\* C6 as stated: a call that ended on a request failing with 401, 404,
\* ECONNREFUSED or ENOTFOUND ended in an McpError whose message carries the
\* corresponding guidance.
C6_ErrorTaxonomy ==
  \A c \in Calls :
    (Done(c) /\ LastResponse(c) \in {"401", "404", "ECONNREFUSED", "ENOTFOUND"})
    => /\ calls[c].outcome = "McpError"
       /\ GuidanceFor(LastResponse(c)) \in Guidance(calls[c].error)

(***************************************************************************)
(* Validation precedes dispatch                                            *)
(***************************************************************************)
\* the required parameters the call lacks for its action, for the tools
\* that are validated
MissingFor(c) ==
  LET in == calls[c].in
  IN IF StartsWith(in.tool, "write_") \/ StartsWith(in.tool, "execute_")
          \/ in.tool = "configure_sync_server"
       THEN validateRequiredParameters(
              in.tool, IF in.action = None THEN "execute" ELSE in.action, in)
       ELSE {}

\* C7: a write_*, execute_* or configure_sync_server call that lacks required
\* parameters for its action enters no service method, sends no request,
\* broadcasts no event, and fails with an error listing the missing parameters.
C7_ValidationPrecedesDispatch ==
  \A c \in Calls :
    (calls[c].pc # "idle" /\ MissingFor(c) # {})
    => /\ Done(c)
       /\ calls[c].trace = <<>>
       /\ calls[c].outcome = "McpError"
       /\ calls[c].error.base = "Missing required parameters"
       /\ calls[c].error.missing = MissingFor(c)
       /\ config = calls[c].configBefore[1]
       /\ syncClient = calls[c].clientBefore[1]

\* an execute_query call without queries and without a job, rejected while
\* the SSE server is set
C7_Witness ==
  \E c \in Calls :
    /\ sseServer /\ Done(c)
    /\ calls[c].in.tool = "execute_query"
    /\ calls[c].error.missing = {<<"queries">>, <<"jobName OR jobId">>}
    /\ calls[c].trace = <<>>

(***************************************************************************)
(* Lifecycle events                                                        *)
(***************************************************************************)
\* C8: while the SSE server is set, a call that passed validation broadcast
\* one tool_execution before anything else; while it runs it has broadcast
\* neither tool_success nor tool_error; when it has ended it has broadcast
\* exactly one of them, last, and tool_error exactly when the operation threw.
C8_LifecycleEvents ==
  \A c \in Calls :
    (sseServer /\ PassedValidation(c))
    => /\ calls[c].trace # <<>>
       /\ calls[c].trace[1] = Event("tool_execution")
       /\ EventCount(c, "tool_execution") = 1
       /\ InFlight(calls[c]) =>
            EventCount(c, "tool_success") + EventCount(c, "tool_error") = 0
       /\ Done(c) =>
            /\ EventCount(c, "tool_success") + EventCount(c, "tool_error") = 1
            /\ calls[c].trace[Len(calls[c].trace)]
                 \in {Event("tool_success"), Event("tool_error")}
            /\ EventCount(c, "tool_error") = 1 <=> calls[c].outcome = "McpError"

\* a call whose request failed: tool_execution, the request, tool_error
C8_Witness ==
  \E c \in Calls :
    /\ sseServer /\ Done(c) /\ HttpCount(c) = 1
    /\ LastResponse(c) = "500"
    /\ calls[c].trace[Len(calls[c].trace)] = Event("tool_error")
    /\ calls[c].outcome = "McpError"

(***************************************************************************)
(* configure_sync_server                                                   *)
(***************************************************************************)
IsConfigUpdate(c) ==
  /\ calls[c].in.tool = "configure_sync_server"
  /\ calls[c].in.action = "update"
  /\ calls[c].outcome = "result"

\* C9: when updateConfig has returned success=false the stored configuration
\* and the server's API client are the ones from before the call and
\* onConfigChange was not invoked; when it has returned success=true the
\* stored configuration is the new one, onConfigChange was invoked once with
\* it, and the API client was rebuilt from it.
C9_UpdateAllOrNothing ==
  \A c \in Calls :
    (Done(c) /\ IsConfigUpdate(c))
    => IF calls[c].result.success
         THEN /\ config = buildNewConfig(calls[c].configBefore[1], calls[c].in.params)
              /\ calls[c].notified = <<config>>
              /\ syncClient = newClient(config)
              /\ LastResponse(c) = "ok"
         ELSE /\ config = calls[c].configBefore[1]
              /\ calls[c].notified = <<>>
              /\ syncClient = calls[c].clientBefore[1]

\* an update that passed every check and failed its connectivity test, asking
\* for a configuration other than the stored one
C9_Witness ==
  \E c \in Calls :
    /\ Done(c) /\ IsConfigUpdate(c) /\ ~calls[c].result.success
    /\ LastResponse(c) = "401"
    /\ calls[c].newConfig # <<>>
    /\ calls[c].newConfig[1] # config

\* the configurations that differ from cfg at most in the value of a
\* password or token that is present
SecretVariants(cfg) ==
  {v \in [baseUrl : {cfg.baseUrl}, username : {cfg.username},
          workspace : {cfg.workspace},
          authToken : {Absent, "", "token-AAAA1", "token-BBBB2"},
          password : {Absent, "", "passw0rd-A", "passw0rd-B"}] :
     /\ Truthy(v.authToken) <=> Truthy(cfg.authToken)
     /\ Truthy(v.password) <=> Truthy(cfg.password)}

\* C10: the result of a 'get' is the one any configuration with the same
\* baseUrl and username and the same presence of password and token gives,
\* and it holds none of the stored secrets.
C10_GetHidesSecrets ==
  \A c \in Calls :
    (Done(c) /\ calls[c].info # <<>>)
    => /\ \A v \in SecretVariants(config) : getCurrentConfig(v) = calls[c].info[1]
       /\ calls[c].info[1].hasPassword \in BOOLEAN
       /\ calls[c].info[1].hasAuthToken \in BOOLEAN
       /\ calls[c].info[1].baseUrl = config.baseUrl

\* a 'get' answered while a password is stored
C10_Witness ==
  \E c \in Calls :
    /\ Done(c) /\ calls[c].info # <<>>
    /\ Truthy(config.password) /\ Truthy(config.username)
    /\ calls[c].info[1].hasPassword = TRUE

(***************************************************************************)
(* configure_sync_server: authentication updates                           *)
(***************************************************************************)
NoAuth(cfg) ==
  cfg.authToken = Absent /\ cfg.username = Absent /\ cfg.password = Absent

\* C11: once a configure_sync_server update with clearAuth=true has been
\* handled, the stored configuration contains no authToken, no username and
\* no password.
C11_ClearAuthClears ==
  \A c \in Calls :
    (Done(c) /\ IsConfigUpdate(c) /\ calls[c].in.params.clearAuth) => NoAuth(config)

\* C12: after a successful update that supplies authToken the stored
\* configuration holds that token and no username or password; after a
\* successful update that supplies username and/or password but no authToken
\* it holds no authToken.
C12_AuthModeSwitch ==
  \A c \in Calls :
    (Done(c) /\ IsConfigUpdate(c) /\ calls[c].result.success)
    => LET p == calls[c].in.params
       IN /\ p.authToken # Absent
               => /\ config.authToken = p.authToken
                  /\ config.username = Absent
                  /\ config.password = Absent
          /\ (p.authToken = Absent /\ (p.username # Absent \/ p.password # Absent))
               => config.authToken = Absent

\* a successful update that supplied a token together with a username and a
\* password, on a server configured for basic authentication
C12_Witness ==
  \E c \in Calls :
    /\ Done(c) /\ IsConfigUpdate(c) /\ calls[c].result.success
    /\ calls[c].in.params.authToken # Absent
    /\ calls[c].in.params.username # Absent
    /\ calls[c].in.params.password # Absent
    /\ Truthy(calls[c].configBefore[1].username)
    /\ ~Truthy(calls[c].configBefore[1].authToken)

(***************************************************************************)
(* workspaceId on every tool that declares it                              *)
(***************************************************************************)
\* C13: a call to a tool that declares workspaceId and supplies
\* workspaceId = W runs its service operation while the API client's
\* workspace is W.
C13_OperationRunsInWorkspace ==
  \A c \in Calls :
    (TakesWorkspaceId(calls[c].in.tool) /\ calls[c].in.ws # Absent
       /\ OperationReached(c))
    => calls[c].opWs = calls[c].in.ws

(***************************************************************************)
(* write_users create                                                      *)
(***************************************************************************)
CompleteUsers(users) ==
  /\ users # NoUsers
  /\ \A i \in 1..Len(users) : {"user", "password", "roles"} \subseteq users[i]

\* C14: a write_users create call that supplies either user, password and
\* roles, or a users array whose entries each carry user, password and
\* roles, passes required-parameter validation and reaches UserService.
C14_CreateAcceptsEitherForm ==
  \A c \in Calls :
    (/\ calls[c].pc # "idle"
     /\ calls[c].in.tool = "write_users" /\ calls[c].in.action = "create"
     /\ \/ {"user", "password", "roles"} \subseteq calls[c].in.args
        \/ CompleteUsers(calls[c].in.users))
    => PassedValidation(c) /\ ReachedResourceService(c)

(***************************************************************************)
(* The action a tool's schema declares as default                          *)
(***************************************************************************)
\* the default of the action property in the tool's inputSchema
DeclaredDefault(tool) ==
  CASE tool \in {"configure_sync_server", "read_tasks"} -> "get"
    [] tool \in {"read_connections", "read_jobs", "read_users", "read_history",
                 "read_requests", "read_transformations", "read_certificates",
                 "read_workspaces"} -> "list"
    [] OTHER -> None

\* C15: a call that omits action, to a tool whose schema declares a default
\* action, is handled as a call with that action: it is not rejected for its
\* action, and when it returns a result it has run the service method of the
\* default action.
C15_OmittedActionIsDefault ==
  \A c \in Calls :
    (/\ calls[c].pc # "idle"
     /\ calls[c].in.action = None
     /\ DeclaredDefault(calls[c].in.tool) # None)
    => /\ calls[c].error.base \notin {"Invalid action", "Invalid config action"}
       /\ calls[c].outcome = "result"
            => \E i \in 1..Len(calls[c].trace) :
                 calls[c].trace[i] =
                   Service(ServiceMethod([calls[c].in EXCEPT
                                            !.action = DeclaredDefault(calls[c].in.tool)]))

(***************************************************************************)
(* DISABLE_SSE and debug event delivery                                    *)
(***************************************************************************)
\* C16: when the process was started with DISABLE_SSE=true, no SSEServer is
\* created or listening, in any transport mode.
C16_DisableSseDisablesSse ==
  (started # "no" /\ env.disableSSE) => (~sseServer /\ ~sseListening)

\* C20: every client connected to GET /events and not yet disconnected has
\* been written every event broadcast since it connected, and is still
\* registered with the server (a disconnect removed only its own client).
C20_BroadcastReachesConnected ==
  \A k \in Conns :
    sseConns[k].st = "open"
    => /\ sseConns[k].out = <<ConnectedEvent>> \o sseConns[k].due
       /\ clients[sseConns[k].id] = k

(***************************************************************************)
(* Large numeric IDs                                                       *)
(***************************************************************************)
SameDigits(j, v) == j.neg = v.neg /\ j.hi = v.hi /\ j.lo = v.lo

\* C17: an integer ID field (name ending in Id/id) whose magnitude exceeds
\* 2^53 is delivered as a string with exactly the digits the server sent,
\* and an ID string passed back through toIdString and transformRequest is
\* sent as the identical string.
C17_LargeIdsRoundTrip ==
  /\ (json.stage \in {"delivered", "sent"} /\ EndsInId(json.name)
        /\ Less(Pow53, json.value))
     => (json.delivered.kind = "string" /\ SameDigits(json.delivered, json.value))
  /\ (json.stage = "sent" /\ json.delivered.kind = "string")
     => json.sent = json.delivered

(***************************************************************************)
(* write_jobs update                                                       *)
(***************************************************************************)
\* C18: every updatable job parameter a write_jobs update call supplies is in
\* the body of its PUT request under its CData field name, mapped as
\* createJob maps it.
C18_UpdateForwardsFields ==
  \A c \in Calls :
    (/\ calls[c].in.tool = "write_jobs" /\ calls[c].in.action = "update"
     /\ \E i \in 1..Len(calls[c].trace) :
          calls[c].trace[i] = Http("jobService.updateJob"))
    => \A p \in calls[c].in.args \ {"jobName"} :
         /\ CDataField(p) \in calls[c].body
         /\ CDataField(p) \in createJobBody(calls[c].in.args)

(***************************************************************************)
(* Message buffering                                                       *)
(***************************************************************************)
\* the step passes a message to send()
SendStep == notes' # notes \/ (inbox' # inbox /\ inbox' \subseteq inbox)

C21_RestoredAfterOverlap ==
  [][ \A c \in Calls :
        (/\ InFlight(calls[c])
         /\ \A d \in Calls : ~InFlight(calls'[d])
         /\ calls'[c].overlapped
         /\ calls'[c].groupOverrides)
        => getWorkspace(syncClient') = calls'[c].groupWs
    ]_vars

====
